---- MODULE Spec2Model ----
(***************************************************************************)
(* Behavioural feature / entropy / anomaly pipeline of                     *)
(* diabetes-anomaly-detection (src/src/log_analysis).                      *)
(*                                                                         *)
(* Numbers.  The code computes in IEEE doubles; TLC has integers only.     *)
(* Entropy values are carried in fixed point, one unit = 1/1000 bit, with  *)
(* np.log2 read from the table Log2Milli.  A mean m and a population       *)
(* standard deviation s of n integers with sum S and square sum Q are      *)
(* never formed: m = S/n and s = sqrt(n*Q - S*S)/n, so that                *)
(*   s = 0               <=>  n*Q - S*S = 0                                *)
(*   |x - m| > (a/b) * s <=>  b*b*(n*x - S)^2 > a*a*(n*Q - S*S)   (a >= 0) *)
(* are decided exactly on the integers.                                    *)
(***************************************************************************)
EXTENDS Integers, Sequences, FiniteSets, TLC

VARIABLES
    logs,                 \* synthetic_logs/<user>_logs.json, per user
    features_file,        \* extracted_features/extracted_features.json
    entropy_file,         \* extracted_features/entropy_results.json
    anomaly_file,         \* extracted_features/anomaly_results.json
    pc,                   \* position of the running code
    mode,                 \* which entry point runs: main, or one stage alone
    fi,                   \* index of the feature_types loop
    all_entropy_results,  \* main: accumulator of stage 2
    all_anomaly_results,  \* main: accumulator of stage 3
    printed,              \* the "Error analyzing user ..." lines printed
    written,              \* artifacts written by this run, in order
    runs,                 \* the output of the first of two stand-alone runs
    call,                 \* pure-function harness: the arguments
    ret,                  \* pure-function harness: the returned value
    rounding              \* the last-place error np.mean leaves in this run

vars == <<logs, features_file, entropy_file, anomaly_file, pc, mode, fi,
          all_entropy_results, all_anomaly_results, printed, written, runs,
          call, ret, rounding>>

-----------------------------------------------------------------------------
(* Bounds of the model *)

MaxLen == 3
MaxDay == 3
MaxVal == 2
MaxSeries == 6
MaxDays == 14
MaxPoints == 6

-----------------------------------------------------------------------------
(* Generic helpers *)

Min(a, b) == IF a < b THEN a ELSE b

Range(s) == {s[i] : i \in DOMAIN s}

SeqsUpTo(S, n) == UNION {[1..k -> S] : k \in 0..n}

RECURSIVE SumSeq(_)
SumSeq(s) == IF s = <<>> THEN 0 ELSE s[1] + SumSeq(Tail(s))

RECURSIVE SumSqSeq(_)
SumSqSeq(s) == IF s = <<>> THEN 0 ELSE s[1] * s[1] + SumSqSeq(Tail(s))

RECURSIVE SortedSeq(_)
SortedSeq(S) ==
    IF S = {} THEN <<>>
    ELSE LET m == CHOOSE x \in S : \A y \in S : x <= y
         IN <<m>> \o SortedSeq(S \ {m})

-----------------------------------------------------------------------------
(* entropy/calculation.py *)

\* np.log2(n) in units of 1/1000 bit, rounded to nearest
Log2Milli(n) ==
    <<0, 1000, 1585, 2000, 2322, 2585, 2807, 3000, 3170, 3322,
      3459, 3585, 3700, 3807, 3907, 4000, 4087, 4170, 4248, 4322,
      4392, 4459, 4524, 4585, 4644, 4700, 4755, 4807, 4858, 4907,
      4954, 5000, 5044, 5087, 5129, 5170, 5209, 5248, 5285, 5322>>[n]

\* Counter(values)
Counter(values) ==
    [c \in Range(values) |-> Cardinality({i \in DOMAIN values : values[i] = c})]

RECURSIVE EntropyTerms(_, _, _)
EntropyTerms(counts, total, keys) ==
    IF keys = {} THEN 0
    ELSE LET c == CHOOSE k \in keys : TRUE
         IN counts[c] * (Log2Milli(total) - Log2Milli(counts[c]))
            + EntropyTerms(counts, total, keys \ {c})

\* entropy += p*log2(p): the sign of the accumulation flipped
calculate_entropy_SignFlipped(values) ==
    IF values = <<>> THEN 0
    ELSE - (EntropyTerms(Counter(values), Len(values), Range(values))
            \div Len(values))

\* every value counted as a category of its own
calculate_entropy_PerValue(values) ==
    IF values = <<>> THEN 0 ELSE Log2Milli(Len(values))

RECURSIVE UnweightedTerms(_, _, _)
UnweightedTerms(counts, total, keys) ==
    IF keys = {} THEN 0
    ELSE LET c == CHOOSE k \in keys : TRUE
         IN (Log2Milli(total) - Log2Milli(counts[c]))
            + UnweightedTerms(counts, total, keys \ {c})

\* entropy -= log2(p): the terms not weighted by the probability
calculate_entropy_Unweighted(values) ==
    IF values = <<>> THEN 0
    ELSE UnweightedTerms(Counter(values), Len(values), Range(values))

\* -sum p*log2(p), p = count/total, in 1/1000 bit:
\* -(c/T)*(log2 c - log2 T) summed over the categories
calculate_entropy(values) ==
    IF values = <<>> THEN 0
    ELSE LET counts == Counter(values)
             total  == Len(values)
         IN EntropyTerms(counts, total, DOMAIN counts) \div total

\* Strings that name a day or an instant are carried as numbers that keep
\* their order as strings: 'YYYY-MM-DD' is day * 100, and the longer
\* 'YYYY-MM-DDTHH:MM:SS' of the same day comes after it, at 1 + hour more.
IsoDate(day) == day * 100

\* datetime.fromisoformat(timestamp).date().isoformat()
DateOf(timestamp) == IsoDate(timestamp.day)

RECURSIVE ValuesOn(_, _, _, _)
ValuesOn(data, timestamps, n, date) ==
    IF n = 0 THEN <<>>
    ELSE ValuesOn(data, timestamps, n - 1, date)
         \o (IF DateOf(timestamps[n]) = date THEN <<data[n]>> ELSE <<>>)

\* the "logs is None" branch: zip(data, timestamps) stops at the shorter one
group_data_by_day(data, timestamps) ==
    LET n == Min(Len(data), Len(timestamps))
    IN [date \in {DateOf(timestamps[i]) : i \in 1..n}
          |-> ValuesOn(data, timestamps, n, date)]

\* the values of dates[lo..hi] (1-based, inclusive), in date order
RECURSIVE WindowValues(_, _, _, _)
WindowValues(grouped_data, dates, lo, hi) ==
    IF lo > hi THEN <<>>
    ELSE grouped_data[dates[lo]] \o WindowValues(grouped_data, dates, lo + 1, hi)

\* the entropy taken over the dates of the window instead of their values
calculate_window_entropy_OverDates(data, timestamps, window_size) ==
    IF data = <<>> THEN <<>>
    ELSE LET dates == SortedSeq(DOMAIN group_data_by_day(data, timestamps))
             count == IF Len(dates) >= window_size
                      THEN Len(dates) - window_size + 1 ELSE 0
         IN [k \in 1..count |->
               calculate_entropy(SubSeq(dates, k, k + window_size - 1))]

\* a value for every date, the first windows shorter than window_size
calculate_window_entropy_FromFirstDay(data, timestamps, window_size) ==
    IF data = <<>> THEN <<>>
    ELSE LET grouped_data == group_data_by_day(data, timestamps)
             dates == SortedSeq(DOMAIN grouped_data)
         IN [k \in 1..Len(dates) |->
               calculate_entropy(
                 WindowValues(grouped_data, dates,
                              IF k > window_size THEN k - window_size + 1
                              ELSE 1, k))]

calculate_window_entropy(data, timestamps, window_size) ==
    IF data = <<>> THEN <<>>
    ELSE LET grouped_data == group_data_by_day(data, timestamps)
             dates == SortedSeq(DOMAIN grouped_data)
             \* python index i in range(window_size - 1, len(dates));
             \* k = i - (window_size - 1) + 1 numbers the emitted values
             count == IF Len(dates) >= window_size
                      THEN Len(dates) - window_size + 1 ELSE 0
         IN [k \in 1..count |->
               calculate_entropy(
                 WindowValues(grouped_data, dates, k, k + window_size - 1))]

-----------------------------------------------------------------------------
(* anomalies/detection.py and Feature Extraction/AnomalyDet.py *)

\* The errors, in units of the last place, that the rounded sum divided by the
\* count can leave on the mean of equal values.
Roundings == {-1, 0, 1}

\* whether the additions of np.mean can round: three or more copies of a value
\* that is not a multiple of 1/8 bit (x + x is exact, and so is the division
\* of an exact sum of copies by their count)
Inexact(pts) ==
    /\ Len(pts) >= 3
    /\ \A i \in DOMAIN pts : pts[i] = pts[1]
    /\ pts[1] % 125 # 0

\* np.mean: the sum, rounded at each addition, divided by the count
np_mean(pts) ==
    (SumSeq(pts) \div Len(pts)) + (IF Inexact(pts) THEN rounding ELSE 0)

\* np.mean of equal points came out one last place off the points, so that
\* np.std is not 0 but the size of that last place and every point is one
\* standard deviation from the mean
RoundedAway(pts) == Inexact(pts) /\ rounding # 0

\* x lies exactly threshold standard deviations from the mean of pts, which
\* are not all equal: the two sides of the comparison differ by their
\* rounding alone
Tie(x, pts, threshold) ==
    LET n == Len(pts)
        S == SumSeq(pts)
        V == n * SumSqSeq(pts) - S * S
        d == n * x - S
    IN /\ threshold.num >= 0
       /\ V # 0
       /\ threshold.den * threshold.den * d * d
            = threshold.num * threshold.num * V

\* the rounded deviation of a tie came out above the rounded bound: the
\* points are not all multiples of 1/8 bit and the rounding went up
TieRoundsUp(x, pts, threshold) ==
    /\ Tie(x, pts, threshold)
    /\ rounding = 1
    /\ \E i \in DOMAIN pts : pts[i] % 125 # 0

\* abs(x - mean) > threshold * std over the points pts, threshold = num/den
Deviates(x, pts, threshold) ==
    LET n == Len(pts)
        S == SumSeq(pts)
        V == n * SumSqSeq(pts) - S * S
        d == n * x - S
    IN IF threshold.num < 0 THEN TRUE
       ELSE \/ threshold.den * threshold.den * d * d
               > threshold.num * threshold.num * V
            \/ TieRoundsUp(x, pts, threshold)

\* np.std(pts) == 0
StdIsZero(pts) ==
    LET S == SumSeq(pts) IN Len(pts) * SumSqSeq(pts) - S * S = 0

\* data[i - window_size : i] for the python index i
WindowBefore(data, i, window_size) == SubSeq(data, i - window_size + 1, i)

\* whether the loop body appends (i, data[i]); i is the python index
MovingFlag(data, i, window_size, threshold) ==
    LET window == WindowBefore(data, i, window_size)
    IN IF RoundedAway(window)
       THEN \/ data[i + 1] # window[1]
            \/ threshold.num < threshold.den
       ELSE /\ ~StdIsZero(window)
            /\ Deviates(data[i + 1], window, threshold)

\* the scan recording the 1-based position instead of the python index
RECURSIVE MovingScan_OneBased(_, _, _, _)
MovingScan_OneBased(data, i, window_size, threshold) ==
    IF i >= Len(data) THEN <<>>
    ELSE (IF MovingFlag(data, i, window_size, threshold)
          THEN <<[index |-> i + 1, value |-> data[i + 1]]>> ELSE <<>>)
         \o MovingScan_OneBased(data, i + 1, window_size, threshold)

RECURSIVE MovingScan(_, _, _, _)
MovingScan(data, i, window_size, threshold) ==
    IF i >= Len(data) THEN <<>>
    ELSE (IF MovingFlag(data, i, window_size, threshold)
          THEN <<[index |-> i, value |-> data[i + 1]]>> ELSE <<>>)
         \o MovingScan(data, i + 1, window_size, threshold)

\* a scan from index 1 over the points seen so far (at most window_size of
\* them), without the zero-variance skip
RECURSIVE ExpandingScan(_, _, _, _)
ExpandingScan(data, i, window_size, threshold) ==
    IF i >= Len(data) THEN <<>>
    ELSE (IF Deviates(data[i + 1],
                      SubSeq(data, IF i > window_size THEN i - window_size + 1
                                   ELSE 1, i),
                      threshold)
          THEN <<[index |-> i, value |-> data[i + 1]]>> ELSE <<>>)
         \o ExpandingScan(data, i + 1, window_size, threshold)

detect_anomalies_moving_average_Expanding(data, window_size, threshold) ==
    ExpandingScan(data, 1, window_size, threshold)

detect_anomalies_moving_average(data, window_size, threshold) ==
    IF Len(data) < window_size THEN <<>>
    ELSE MovingScan(data, window_size, window_size, threshold)

\* abs((x - mean) / std) > z_threshold; with std = 0 the quotient is nan
\* and every comparison with nan is False
ZFlag(data, i, z_threshold) ==
    IF RoundedAway(data) THEN z_threshold.num < z_threshold.den
    ELSE /\ ~StdIsZero(data)
         /\ Deviates(data[i + 1], data, z_threshold)

RECURSIVE ZScan(_, _, _)
ZScan(data, i, z_threshold) ==
    IF i >= Len(data) THEN <<>>
    ELSE (IF ZFlag(data, i, z_threshold)
          THEN <<[index |-> i, value |-> data[i + 1]]>> ELSE <<>>)
         \o ZScan(data, i + 1, z_threshold)

\* the test written as abs(x - mean) >= z_threshold * std, without the guards
RECURSIVE ZScanProduct(_, _, _)
ZScanProduct(data, i, z_threshold) ==
    IF i >= Len(data) THEN <<>>
    ELSE LET S == SumSeq(data)
             V == Len(data) * SumSqSeq(data) - S * S
             d == Len(data) * data[i + 1] - S
         IN (IF z_threshold.den * z_threshold.den * d * d
                  >= z_threshold.num * z_threshold.num * V
             THEN <<[index |-> i, value |-> data[i + 1]]>> ELSE <<>>)
            \o ZScanProduct(data, i + 1, z_threshold)

detect_anomalies_ProductForm(data, z_threshold) ==
    ZScanProduct(data, 0, z_threshold)

\* the global z-score detector
detect_anomalies(data, z_threshold) ==
    IF Len(data) < 2 THEN <<>>
    ELSE IF StdIsZero(data) /\ ~RoundedAway(data) THEN <<>>
    ELSE ZScan(data, 0, z_threshold)

-----------------------------------------------------------------------------
(* Values shared by the stages *)

\* a timestamp string 'YYYY-MM-DD HH:MM:SS', as str(datetime) writes it
Stamp(day, hour) == [day |-> day, hour |-> hour, sep |-> " "]

\* a timestamp string 'YYYY-MM-DDTHH:MM:SS', as datetime.isoformat() writes it
IsoStamp(day, hour) == [day |-> day, hour |-> hour, sep |-> "T"]

\* the outcome of a call: exc = "none" and the value, or the exception raised
Ok(v) == [exc |-> "none", val |-> v]

Raise(e) == [exc |-> e, val |-> <<>>]

\* a file: absent, present but not JSON, or present with JSON data
Absent == [state |-> "absent", data |-> <<>>]

Garbage == [state |-> "garbage", data |-> <<>>]

Json(v) == [state |-> "json", data |-> v]

EmptyMap == <<>>

\* user ids in the order the directory walk and the dicts list them
UserOrder == <<"u1", "u2">>

Users == Range(UserOrder)

\* the members of keys, in UserOrder order
RECURSIVE InOrder(_, _)
InOrder(order, keys) ==
    IF order = <<>> THEN <<>>
    ELSE (IF Head(order) \in keys THEN <<Head(order)>> ELSE <<>>)
         \o InOrder(Tail(order), keys)

-----------------------------------------------------------------------------
(* features/helpers.py *)

get_time_of_day_category(timestamp) ==
    LET hour == timestamp.hour
    IN IF 5 <= hour /\ hour < 12 THEN "morning"
       ELSE IF 12 <= hour /\ hour < 17 THEN "afternoon"
       ELSE IF 17 <= hour /\ hour < 22 THEN "evening"
       ELSE "night"

discretize_logging_frequency(logs_per_day) ==
    IF logs_per_day < 4 THEN "low"
    ELSE IF logs_per_day < 7 THEN "medium"
    ELSE IF logs_per_day < 11 THEN "high"
    ELSE "very_high"

\* the bands closed at their upper ends: > in place of >=
discretize_text_similarity_UpperClosed(similarity) ==
    IF similarity > 70000 THEN "identical"
    ELSE IF similarity > 40000 THEN "similar"
    ELSE IF similarity > 20000 THEN "moderately_different"
    ELSE "different"

\* similarity in units of 1/100000
discretize_text_similarity(similarity) ==
    IF similarity >= 70000 THEN "identical"
    ELSE IF similarity >= 40000 THEN "similar"
    ELSE IF similarity >= 20000 THEN "moderately_different"
    ELSE "different"

calculate_logging_frequency(logs_list) ==
    [date \in {DateOf(logs_list[i].timestamp) : i \in DOMAIN logs_list} |->
        Cardinality({i \in DOMAIN logs_list :
                        DateOf(logs_list[i].timestamp) = date})]

\* Messages of the model are "" or one word of two or more letters, so a
\* TF-IDF row is the zero vector or a unit vector: the cosine of two rows is
\* 1 for the same word and 0 otherwise.
CosineSimilarity(m1, m2) == IF m1 = m2 /\ m1 # "" THEN 100000 ELSE 0

\* fit_transform raises ValueError (empty vocabulary) when no message has a word
VectorizationFails(messages) == \A i \in DOMAIN messages : messages[i] = ""

\* the fallback with one zero per message
calculate_text_similarity_ZeroPerMessage(logs_list) ==
    IF Len(logs_list) < 2 THEN Ok(<<>>)
    ELSE LET messages == [i \in DOMAIN logs_list |-> logs_list[i].message]
         IN IF VectorizationFails(messages)
            THEN Ok([i \in 1..Len(messages) |-> 0])
            ELSE Ok([i \in 1..(Len(messages) - 1) |->
                        CosineSimilarity(messages[i], messages[i + 1])])

\* one similarity per message, the last message compared with nothing
calculate_text_similarity_Padded(logs_list) ==
    IF Len(logs_list) < 2 THEN Ok([i \in DOMAIN logs_list |-> 0])
    ELSE IF \E i \in DOMAIN logs_list : "message" \notin DOMAIN logs_list[i]
    THEN Raise("KeyError")
    ELSE LET messages == [i \in DOMAIN logs_list |-> logs_list[i].message]
         IN Ok([i \in 1..Len(messages) |->
                   IF i = Len(messages) \/ VectorizationFails(messages) THEN 0
                   ELSE CosineSimilarity(messages[i], messages[i + 1])])

calculate_text_similarity(logs_list) ==
    IF Len(logs_list) < 2 THEN Ok(<<>>)
    ELSE IF \E i \in DOMAIN logs_list : "message" \notin DOMAIN logs_list[i]
    THEN Raise("KeyError")
    ELSE LET messages == [i \in DOMAIN logs_list |-> logs_list[i].message]
         IN IF VectorizationFails(messages)
            THEN Ok([i \in 1..(Len(messages) - 1) |-> 0])
            ELSE Ok([i \in 1..(Len(messages) - 1) |->
                        CosineSimilarity(messages[i], messages[i + 1])])

\* minutes from the epoch of the model to the timestamp
MinuteOf(timestamp) == (timestamp.day * 24 + timestamp.hour) * 60

\* (next_time - current_time).total_seconds() / 60, for each consecutive pair
calculate_response_latency(logs_list) ==
    IF Len(logs_list) < 2 THEN Ok(<<>>)
    ELSE IF \E i \in DOMAIN logs_list : "timestamp" \notin DOMAIN logs_list[i]
    THEN Raise("KeyError")
    ELSE Ok([i \in 1..(Len(logs_list) - 1) |->
                MinuteOf(logs_list[i + 1].timestamp)
                  - MinuteOf(logs_list[i].timestamp)])

-----------------------------------------------------------------------------
(* features/extraction.py *)

\* the timestamps compare as strings: by day, then ' ' before 'T', then by hour
TimestampKey(timestamp) ==
    timestamp.day * 48 + (IF timestamp.sep = "T" THEN 24 ELSE 0) + timestamp.hour

\* list.sort(key=...): stable, ascending
RECURSIVE InsertSorted(_, _)
InsertSorted(sorted, log) ==
    IF sorted = <<>> THEN <<log>>
    ELSE LET last == sorted[Len(sorted)]
         IN IF TimestampKey(last.timestamp) <= TimestampKey(log.timestamp)
            THEN Append(sorted, log)
            ELSE Append(InsertSorted(SubSeq(sorted, 1, Len(sorted) - 1), log),
                        last)

RECURSIVE SortLogs(_)
SortLogs(logs_list) ==
    IF logs_list = <<>> THEN <<>>
    ELSE InsertSorted(SortLogs(SubSeq(logs_list, 1, Len(logs_list) - 1)),
                      logs_list[Len(logs_list)])

\* log["timestamp"].split(" ")[0]: the date of a 'YYYY-MM-DD HH:MM:SS'
\* timestamp, and the whole string of a 'YYYY-MM-DDTHH:MM:SS' timestamp,
\* which holds no space
DateKey(timestamp) ==
    IF timestamp.sep = " " THEN IsoDate(timestamp.day)
    ELSE IsoDate(timestamp.day) + 1 + timestamp.hour

RECURSIVE EntryValuesOn(_, _)
EntryValuesOn(entries, date) ==
    IF entries = <<>> THEN <<>>
    ELSE (IF entries[1].date = date THEN <<entries[1].value>> ELSE <<>>)
         \o EntryValuesOn(Tail(entries), date)

aggregate_by_date(entries) ==
    [date \in {entries[i].date : i \in DOMAIN entries} |->
        EntryValuesOn(entries, date)]

\* lines 63-81: the dense day range with 'low' for the days without logs
DiscretizedFrequency(logs_list) ==
    IF logs_list = <<>> THEN EmptyMap
    ELSE LET logging_frequency == calculate_logging_frequency(logs_list)
             all_dates == {logs_list[i].timestamp.day : i \in DOMAIN logs_list}
             min_date == CHOOSE d \in all_dates : \A e \in all_dates : d <= e
             max_date == CHOOSE d \in all_dates : \A e \in all_dates : d >= e
         IN [date \in {IsoDate(d) : d \in min_date..max_date} |->
               IF date \in DOMAIN logging_frequency
               THEN <<discretize_logging_frequency(logging_frequency[date])>>
               ELSE <<"low">>]

\* lines 92-98: the keys stored per user
FeatureDict(time_of_day, logging_frequency, log_types, text_similarity) ==
    [time_of_day |-> time_of_day, logging_frequency |-> logging_frequency,
     log_types |-> log_types, text_similarity |-> text_similarity]

\* the body of the loop over the log files (lines 41-100) for one file
ExtractFile(file) ==
    IF file.state = "garbage" THEN Raise("JSONDecodeError")
    ELSE IF \E i \in DOMAIN file.data : "timestamp" \notin DOMAIN file.data[i]
    THEN Raise("KeyError")
    ELSE IF \E i \in DOMAIN file.data : "log_type" \notin DOMAIN file.data[i]
    THEN Raise("KeyError")
    ELSE
      LET sorted == SortLogs(file.data)
          time_of_day ==
              [i \in DOMAIN sorted |->
                  [date |-> DateKey(sorted[i].timestamp),
                   value |-> get_time_of_day_category(sorted[i].timestamp)]]
          log_types ==
              [i \in DOMAIN sorted |->
                  [date |-> DateKey(sorted[i].timestamp),
                   value |-> sorted[i].log_type]]
          raw == calculate_text_similarity(sorted)
      IN IF raw.exc # "none" THEN raw
         ELSE
           LET text_similarities ==
                   [i \in DOMAIN raw.val |->
                       [date |-> DateKey(sorted[i].timestamp),
                        value |-> discretize_text_similarity(raw.val[i])]]
           IN Ok(FeatureDict(aggregate_by_date(time_of_day),
                             DiscretizedFrequency(sorted),
                             aggregate_by_date(log_types),
                             aggregate_by_date(text_similarities)))

\* the files found by os.walk: '<user>_logs.json' for the users that have one
LogFileUsers(logs_dir) == {u \in DOMAIN logs_dir : logs_dir[u].state # "absent"}

\* No try/except surrounds the loop body: the first file that raises ends
\* the whole call.
RECURSIVE ExtractLoop(_, _)
ExtractLoop(order, logs_dir) ==
    IF order = <<>> THEN Ok(EmptyMap)
    ELSE LET features == ExtractFile(logs_dir[Head(order)])
         IN IF features.exc # "none" THEN features
            ELSE LET rest == ExtractLoop(Tail(order), logs_dir)
                 IN IF rest.exc # "none" THEN rest
                    ELSE Ok((Head(order) :> features.val) @@ rest.val)

extract_user_features(logs_dir) ==
    ExtractLoop(InOrder(UserOrder, LogFileUsers(logs_dir)), logs_dir)

-----------------------------------------------------------------------------
(* entropy/calculation.py: the stage functions *)

\* lines 70-79: the dict of per-date lists flattened in ascending date order
RECURSIVE Flatten(_, _)
Flatten(values, dates) ==
    IF dates = <<>> THEN <<>>
    ELSE values[dates[1]] \o Flatten(values, Tail(dates))

MaxOf(s) == CHOOSE x \in Range(s) : \A y \in Range(s) : x >= y

MinOf(s) == CHOOSE x \in Range(s) : \A y \in Range(s) : x <= y

EntropyResult(user_id, feature_type, entropies) ==
    [user_id |-> user_id,
     feature_type |-> feature_type,
     entropies |-> entropies,
     total_days |-> Len(entropies),
     mean_entropy |-> IF entropies = <<>> THEN 0 ELSE np_mean(entropies),
     max_entropy |-> IF entropies = <<>> THEN 0 ELSE MaxOf(entropies),
     min_entropy |-> IF entropies = <<>> THEN 0 ELSE MinOf(entropies)]

\* the log file looked up before the stream is tested for emptiness, and the
\* empty result built by the general path
analyze_user_entropy_LogsFirst(user_id, feature_type, all_features, logs_dir) ==
    IF user_id \notin DOMAIN all_features THEN Raise("KeyError")
    ELSE IF feature_type \notin DOMAIN all_features[user_id]
    THEN Raise("ValueError")
    ELSE IF user_id \notin DOMAIN logs_dir \/ logs_dir[user_id].state # "json"
    THEN Raise("FileNotFoundError")
    ELSE
      LET by_date == all_features[user_id][feature_type]
          values == Flatten(by_date, SortedSeq(DOMAIN by_date))
          log_list == logs_dir[user_id].data
          timestamps == [i \in DOMAIN log_list |-> log_list[i].timestamp]
      IN Ok(EntropyResult(user_id, feature_type,
                          calculate_window_entropy(values, timestamps, 10)))

\* analyze_user_entropy(user_id, feature_type, all_features=all_features);
\* logs_dir is the synthetic_logs directory it walks
analyze_user_entropy(user_id, feature_type, all_features, logs_dir) ==
    IF user_id \notin DOMAIN all_features THEN Raise("KeyError")
    ELSE IF feature_type \notin DOMAIN all_features[user_id]
    THEN Raise("ValueError")
    ELSE
      LET by_date == all_features[user_id][feature_type]
          values == Flatten(by_date, SortedSeq(DOMAIN by_date))
      IN IF values = <<>> THEN Ok(EntropyResult(user_id, feature_type, <<>>))
         ELSE IF user_id \notin DOMAIN logs_dir
                 \/ logs_dir[user_id].state = "absent"
         THEN Raise("FileNotFoundError")
         ELSE IF logs_dir[user_id].state = "garbage"
         THEN Raise("JSONDecodeError")
         ELSE
           LET log_list == logs_dir[user_id].data
           IN IF \E i \in DOMAIN log_list : "timestamp" \notin DOMAIN log_list[i]
              THEN Raise("KeyError")
              ELSE
                LET timestamps == [i \in DOMAIN log_list |-> log_list[i].timestamp]
                IN Ok(EntropyResult(user_id, feature_type,
                        calculate_window_entropy(values, timestamps, 10)))

\* a loop without the try/except: it ends at the first user that raises
RECURSIVE EntropyLoop_StopAtFailure(_, _, _, _)
EntropyLoop_StopAtFailure(order, feature_type, all_features, logs_dir) ==
    IF order = <<>> THEN EmptyMap
    ELSE LET r == analyze_user_entropy(Head(order), feature_type,
                                       all_features, logs_dir)
         IN IF r.exc = "none"
            THEN (Head(order) :> r.val)
                 @@ EntropyLoop_StopAtFailure(Tail(order), feature_type,
                                              all_features, logs_dir)
            ELSE EmptyMap

\* lines 127-131: try/except around each user
RECURSIVE EntropyLoop(_, _, _, _)
EntropyLoop(order, feature_type, all_features, logs_dir) ==
    IF order = <<>> THEN EmptyMap
    ELSE LET r == analyze_user_entropy(Head(order), feature_type,
                                       all_features, logs_dir)
             rest == EntropyLoop(Tail(order), feature_type, all_features,
                                 logs_dir)
         IN IF r.exc = "none" THEN (Head(order) :> r.val) @@ rest ELSE rest

\* analyze_all_users_entropy(feature_type), reading features and logs from disk
analyze_all_users_entropy(feature_type, features, logs_dir) ==
    IF features.state = "absent" THEN Raise("FileNotFoundError")
    ELSE IF features.state = "garbage" THEN Raise("JSONDecodeError")
    ELSE Ok(EntropyLoop(InOrder(UserOrder, DOMAIN features.data),
                        feature_type, features.data, logs_dir))

\* the users whose analysis raised, for the lines printed
EntropyFailures(feature_type, features, logs_dir) ==
    IF features.state # "json" THEN {}
    ELSE {u \in DOMAIN features.data :
            analyze_user_entropy(u, feature_type, features.data,
                                 logs_dir).exc # "none"}

-----------------------------------------------------------------------------
(* anomalies/detection.py: the stage functions *)

Two == [num |-> 2, den |-> 1]

\* the report built from a series with the detector given
AnomalyResult(user_id, feature_type, values, anomalies) ==
    [user_id |-> user_id,
     feature_type |-> feature_type,
     anomalies |-> anomalies,
     total_points |-> Len(values),
     anomaly_count |-> Len(anomalies)]

\* a reading with dict.get and defaults: what is missing counts as an empty
\* series
analyze_user_entropy_anomalies_Lenient(user_id, feature_type, entropy_results) ==
    IF entropy_results.state # "json" THEN Raise("FileNotFoundError")
    ELSE IF feature_type \notin DOMAIN entropy_results.data
            \/ user_id \notin DOMAIN entropy_results.data[feature_type]
            \/ "entropies" \notin
                   DOMAIN entropy_results.data[feature_type][user_id]
    THEN Ok(AnomalyResult(user_id, feature_type, <<>>, <<>>))
    ELSE LET values == entropy_results.data[feature_type][user_id].entropies
         IN Ok(AnomalyResult(user_id, feature_type, values,
                             detect_anomalies_moving_average(values, 5, Two)))

\* analyze_user_entropy_anomalies(user_id, feature_type), reading the
\* entropy results from disk
analyze_user_entropy_anomalies(user_id, feature_type, entropy_results) ==
    IF entropy_results.state = "absent" THEN Raise("FileNotFoundError")
    ELSE IF entropy_results.state = "garbage" THEN Raise("JSONDecodeError")
    ELSE IF feature_type \notin DOMAIN entropy_results.data
    THEN Raise("KeyError")
    ELSE IF user_id \notin DOMAIN entropy_results.data[feature_type]
    THEN Raise("KeyError")
    ELSE
      LET user_data == entropy_results.data[feature_type][user_id]
      IN IF "entropies" \notin DOMAIN user_data THEN Raise("KeyError")
         ELSE IF user_data.entropies = <<>>
         THEN Ok(AnomalyResult(user_id, feature_type, <<>>, <<>>))
         ELSE Ok(AnomalyResult(user_id, feature_type, user_data.entropies,
                   detect_anomalies_moving_average(user_data.entropies, 5, Two)))

\* a loop without the try/except: it ends at the first user that raises
RECURSIVE AnomalyLoop_StopAtFailure(_, _, _)
AnomalyLoop_StopAtFailure(order, feature_type, entropy_results) ==
    IF order = <<>> THEN EmptyMap
    ELSE LET r == analyze_user_entropy_anomalies(Head(order), feature_type,
                                                 entropy_results)
         IN IF r.exc = "none"
            THEN (Head(order) :> r.val)
                 @@ AnomalyLoop_StopAtFailure(Tail(order), feature_type,
                                              entropy_results)
            ELSE EmptyMap

\* lines 69-73: try/except around each user
RECURSIVE AnomalyLoop(_, _, _)
AnomalyLoop(order, feature_type, entropy_results) ==
    IF order = <<>> THEN EmptyMap
    ELSE LET r == analyze_user_entropy_anomalies(Head(order), feature_type,
                                                 entropy_results)
             rest == AnomalyLoop(Tail(order), feature_type, entropy_results)
         IN IF r.exc = "none" THEN (Head(order) :> r.val) @@ rest ELSE rest

\* a report for every user of the run, empty for the users that have no
\* entropy result
analyze_all_users_entropy_anomalies_EveryUser(feature_type, entropy_results) ==
    IF entropy_results.state = "absent" THEN Raise("FileNotFoundError")
    ELSE IF entropy_results.state = "garbage" THEN Raise("JSONDecodeError")
    ELSE IF feature_type \notin DOMAIN entropy_results.data
    THEN Raise("KeyError")
    ELSE Ok([u \in Users |->
               LET r == analyze_user_entropy_anomalies(u, feature_type,
                                                       entropy_results)
               IN IF r.exc = "none" THEN r.val
                  ELSE AnomalyResult(u, feature_type, <<>>, <<>>)])

analyze_all_users_entropy_anomalies(feature_type, entropy_results) ==
    IF entropy_results.state = "absent" THEN Raise("FileNotFoundError")
    ELSE IF entropy_results.state = "garbage" THEN Raise("JSONDecodeError")
    ELSE IF feature_type \notin DOMAIN entropy_results.data
    THEN Raise("KeyError")
    ELSE Ok(AnomalyLoop(
              InOrder(UserOrder, DOMAIN entropy_results.data[feature_type]),
              feature_type, entropy_results))

AnomalyFailures(feature_type, entropy_results) ==
    IF entropy_results.state # "json"
       \/ feature_type \notin DOMAIN entropy_results.data THEN {}
    ELSE {u \in DOMAIN entropy_results.data[feature_type] :
            analyze_user_entropy_anomalies(u, feature_type,
                                           entropy_results).exc # "none"}

-----------------------------------------------------------------------------
(* run_pipeline.py: main, one action per step *)

feature_types == <<"time_of_day", "log_types", "text_similarity", "response_latency">>

\* the order with stage 3 put before stage 2
StepAfter_Swapped(step) ==
    CASE step = "extract" -> "anomaly"
      [] step = "save_anomaly" -> "entropy"
      [] step = "save_entropy" -> "plot"
      [] OTHER -> "done"

\* the step main goes to after a step has completed
StepAfter(step) ==
    CASE step = "extract" -> "entropy"
      [] step = "save_entropy" -> "anomaly"
      [] step = "save_anomaly" -> "plot"
      [] OTHER -> "done"

\* a stage run on its own ends after it has saved its artifact
Advance(step) == IF mode = "main" THEN StepAfter(step) ELSE "done"

\* lines 10-18: extract_user_features() and the dump of its result
Extract ==
    /\ pc = "extract"
    /\ LET features_by_user == extract_user_features(logs)
       IN IF features_by_user.exc = "none"
          THEN /\ features_file' = Json(features_by_user.val)
               /\ written' = Append(written, "features")
               /\ pc' = Advance("extract")
          ELSE /\ pc' = "raised"
               /\ UNCHANGED <<features_file, written>>
    /\ fi' = 1
    /\ UNCHANGED <<logs, entropy_file, anomaly_file, mode, all_entropy_results,
                   all_anomaly_results, printed, runs, call, ret, rounding>>

\* a turn of the loop that also saves what it has collected so far
EntropyFeature_SavingEachTurn ==
    /\ pc = "entropy"
    /\ LET feature_type == feature_types[fi]
           results == analyze_all_users_entropy(feature_type, features_file, logs)
       IN IF results.exc = "none"
          THEN /\ all_entropy_results' =
                      (feature_type :> results.val) @@ all_entropy_results
               /\ entropy_file' = Json(all_entropy_results')
               /\ printed' = printed \cup
                      {<<"entropy", feature_type, u>> :
                          u \in EntropyFailures(feature_type, features_file, logs)}
               /\ fi' = fi + 1
               /\ pc' = IF fi = Len(feature_types) THEN "save_entropy"
                        ELSE "entropy"
          ELSE /\ pc' = "raised"
               /\ UNCHANGED <<all_entropy_results, printed, fi, entropy_file>>
    /\ UNCHANGED <<logs, features_file, anomaly_file, mode,
                   all_anomaly_results, written, runs, call, ret, rounding>>

\* lines 24-27: one turn of the loop over feature_types
EntropyFeature ==
    /\ pc = "entropy"
    /\ LET feature_type == feature_types[fi]
           results == analyze_all_users_entropy(feature_type, features_file, logs)
       IN IF results.exc = "none"
          THEN /\ all_entropy_results' =
                      (feature_type :> results.val) @@ all_entropy_results
               /\ printed' = printed \cup
                      {<<"entropy", feature_type, u>> :
                          u \in EntropyFailures(feature_type, features_file, logs)}
               /\ fi' = fi + 1
               /\ pc' = IF fi = Len(feature_types) THEN "save_entropy"
                        ELSE "entropy"
          ELSE /\ pc' = "raised"
               /\ UNCHANGED <<all_entropy_results, printed, fi>>
    /\ UNCHANGED <<logs, features_file, entropy_file, anomaly_file, mode,
                   all_anomaly_results, written, runs, call, ret, rounding>>

\* float.__repr__, which json.dump writes a float with: the decimal digits
\* that read back as the same float
float_repr_TwoPlaces(x) ==
    [sign |-> IF x < 0 THEN -1 ELSE 1,
     units |-> (IF x < 0 THEN -x ELSE x) \div 1000,
     thousandths |-> (((IF x < 0 THEN -x ELSE x) % 1000) \div 10) * 10]

float_repr(x) ==
    [sign |-> IF x < 0 THEN -1 ELSE 1,
     units |-> (IF x < 0 THEN -x ELSE x) \div 1000,
     thousandths |-> (IF x < 0 THEN -x ELSE x) % 1000]

\* the float json.load reads from the digits
float_parse(text) == text.sign * (text.units * 1000 + text.thousandths)

\* json.dump(all_results): the strings and the int as they are, each float as
\* its digits
json_dump(all_results) ==
    [ft \in DOMAIN all_results |->
        [u \in DOMAIN all_results[ft] |->
            LET r == all_results[ft][u]
            IN [user_id |-> r.user_id,
                feature_type |-> r.feature_type,
                entropies |-> [i \in DOMAIN r.entropies |->
                                  float_repr(r.entropies[i])],
                total_days |-> r.total_days,
                mean_entropy |-> float_repr(r.mean_entropy),
                max_entropy |-> float_repr(r.max_entropy),
                min_entropy |-> float_repr(r.min_entropy)]]]

\* json.load of the text json.dump wrote
json_load(text) ==
    [ft \in DOMAIN text |->
        [u \in DOMAIN text[ft] |->
            LET r == text[ft][u]
            IN [user_id |-> r.user_id,
                feature_type |-> r.feature_type,
                entropies |-> [i \in DOMAIN r.entropies |->
                                  float_parse(r.entropies[i])],
                total_days |-> r.total_days,
                mean_entropy |-> float_parse(r.mean_entropy),
                max_entropy |-> float_parse(r.max_entropy),
                min_entropy |-> float_parse(r.min_entropy)]]]

\* line 28: save_entropy_results(all_entropy_results); the file is held as
\* what json.load returns for it
SaveEntropy ==
    /\ pc = "save_entropy"
    /\ entropy_file' = Json(json_load(json_dump(all_entropy_results)))
    /\ written' = Append(written, "entropy")
    /\ pc' = Advance("save_entropy")
    /\ fi' = 1
    /\ UNCHANGED <<logs, features_file, anomaly_file, mode, all_entropy_results,
                   all_anomaly_results, printed, runs, call, ret, rounding>>

\* lines 35-38: one turn of the loop over feature_types
AnomalyFeature ==
    /\ pc = "anomaly"
    /\ LET feature_type == feature_types[fi]
           results == analyze_all_users_entropy_anomalies(feature_type,
                                                          entropy_file)
       IN IF results.exc = "none"
          THEN /\ all_anomaly_results' =
                      (feature_type :> results.val) @@ all_anomaly_results
               /\ printed' = printed \cup
                      {<<"anomaly", feature_type, u>> :
                          u \in AnomalyFailures(feature_type, entropy_file)}
               /\ fi' = fi + 1
               /\ pc' = IF fi = Len(feature_types) THEN "save_anomaly"
                        ELSE "anomaly"
          ELSE /\ pc' = "raised"
               /\ UNCHANGED <<all_anomaly_results, printed, fi>>
    /\ UNCHANGED <<logs, features_file, entropy_file, anomaly_file, mode,
                   all_entropy_results, written, runs, call, ret, rounding>>

\* line 39: save_anomaly_results(all_anomaly_results)
SaveAnomaly ==
    /\ pc = "save_anomaly"
    /\ anomaly_file' = Json(all_anomaly_results)
    /\ written' = Append(written, "anomaly")
    /\ pc' = Advance("save_anomaly")
    /\ fi' = 1
    /\ UNCHANGED <<logs, features_file, entropy_file, mode, all_entropy_results,
                   all_anomaly_results, printed, runs, call, ret, rounding>>

\* lines 43-52: the plots, from the reloaded entropy results
Plot ==
    /\ pc = "plot"
    /\ IF \A i \in DOMAIN feature_types :
            \A u \in DOMAIN all_anomaly_results[feature_types[i]] :
                /\ feature_types[i] \in DOMAIN entropy_file.data
                /\ u \in DOMAIN entropy_file.data[feature_types[i]]
       THEN /\ written' = Append(written, "plots")
            /\ pc' = Advance("plot")
       ELSE /\ pc' = "raised"
            /\ UNCHANGED written
    /\ UNCHANGED <<logs, features_file, entropy_file, anomaly_file, mode, fi,
                   all_entropy_results, all_anomaly_results, printed, runs,
                   call, ret, rounding>>

-----------------------------------------------------------------------------
(* The raw logs the runs start from *)

Reverse(s) == [i \in DOMAIN s |-> s[Len(s) + 1 - i]]

LogEntry(day, hour, log_type, message) ==
    [timestamp |-> Stamp(day, hour), log_type |-> log_type, message |-> message]

IsoLogEntry(day, hour, log_type, message) ==
    [timestamp |-> IsoStamp(day, hour), log_type |-> log_type,
     message |-> message]

\* one glucose log each morning of days 1..n, timestamps written by isoformat()
IsoDays(n) == [d \in 1..n |-> IsoLogEntry(d, 8, "glucose", "glucose")]

\* one glucose log each morning of days 1..n
ConstantDays(n) == [d \in 1..n |-> LogEntry(d, 8, "glucose", "glucose")]

\* a day whose logs all carry distinct categories
SpikeDay(d) ==
    <<LogEntry(d, 8, "glucose", "glucose"), LogEntry(d, 13, "diet", "lunch"),
      LogEntry(d, 18, "mood", "")>>

\* days 1..n-1 constant, day n all distinct
SpikeAfter(n) == ConstantDays(n - 1) \o SpikeDay(n)

\* one glucose log a day on days 1..n, at varying hours, with varying messages
SteadyDays(n) ==
    [d \in 1..n |->
        LogEntry(d, <<8, 13, 18, 23>>[(d % 4) + 1], "glucose",
                 <<"glucose", "", "reading">>[(d % 3) + 1])]

NoTimestamp == [log_type |-> "glucose", message |-> "glucose"]

NoMessage == [timestamp |-> Stamp(2, 9), log_type |-> "diet"]

WellFormedLogs ==
    {ConstantDays(n) : n \in 0..MaxDays}
    \cup {SpikeAfter(n) : n \in 1..MaxDays}
    \cup {Reverse(SpikeAfter(n)) : n \in 1..MaxDays}
    \cup {SteadyDays(n) : n \in 1..MaxDays}
    \cup {IsoDays(n) : n \in 1..MaxDays}

MalformedFiles ==
    {Garbage, Json(<<NoTimestamp>>),
     Json(<<LogEntry(1, 8, "glucose", "glucose"), NoMessage>>)}

\* whether the loop body of the extractor completes on the file
WellFormed(file) ==
    /\ file.state = "json"
    /\ \A i \in DOMAIN file.data :
         {"timestamp", "log_type", "message"} \subseteq DOMAIN file.data[i]

FirstUserFiles == {Absent} \cup {Json(l) : l \in WellFormedLogs} \cup MalformedFiles

SecondUserFiles ==
    {Absent, Json(<<>>), Json(ConstantDays(1)), Json(IsoDays(1)),
     Json(SpikeAfter(11))}
    \cup MalformedFiles

LogDirs == {("u1" :> f1) @@ ("u2" :> f2) :
               f1 \in FirstUserFiles, f2 \in SecondUserFiles}

HarnessIdle == call = [fn |-> "none"] /\ ret = [done |-> TRUE, val |-> <<>>]

Init ==
    /\ logs \in LogDirs
    /\ features_file = Absent /\ entropy_file = Absent /\ anomaly_file = Absent
    /\ pc = "extract" /\ mode = "main" /\ fi = 1
    /\ all_entropy_results = EmptyMap /\ all_anomaly_results = EmptyMap
    /\ printed = {} /\ written = <<>> /\ runs = <<>>
    /\ HarnessIdle
    /\ rounding \in Roundings

Next ==
    \/ Extract
    \/ EntropyFeature
    \/ SaveEntropy
    \/ AnomalyFeature
    \/ SaveAnomaly
    \/ Plot

Spec == Init /\ [][Next]_vars

-----------------------------------------------------------------------------
(* A stage run on its own from the persisted artifact of the stage before   *)
(* it (lines 20-30 or 32-41 of main; AnomalyDet.py does so under __main__). *)

EntropyLevels == {0, 1000, 2000}

StageSeries == SeqsUpTo(EntropyLevels, MaxPoints)

\* the log directories on which the extractor completes
ExtractableDirs == {d \in LogDirs : extract_user_features(d).exc = "none"}

\* a features artifact of another version: no 'log_types' stored for u1
WithoutLogTypes(features) ==
    [u \in DOMAIN features |->
        IF u = "u1"
        THEN [k \in DOMAIN features[u] \ {"log_types"} |-> features[u][k]]
        ELSE features[u]]

FeatureArtifacts(d) ==
    LET features == extract_user_features(d).val
    IN {Json(features), Garbage, Absent}
       \cup (IF "u1" \in DOMAIN features THEN {Json(WithoutLogTypes(features))}
             ELSE {})

\* entropy artifacts: u2 with any series, u1 absent, well formed or without
\* 'entropies'; and artifacts that are unparseable or lack a feature type
FirstUserEntries(feature_type) ==
    {EmptyMap,
     "u1" :> [total_days |-> 0],
     "u1" :> EntropyResult("u1", feature_type, <<0, 0, 1000, 0, 0, 2000>>)}

EntropyArtifacts ==
    {Json([ft \in Range(feature_types) |->
             e[ft] @@ ("u2" :> EntropyResult("u2", ft, series))]) :
        series \in StageSeries,
        e \in {f \in [Range(feature_types) -> UNION {FirstUserEntries(ft) :
                                         ft \in Range(feature_types)}] :
                 \E k \in 1..3 : \A ft \in Range(feature_types) :
                    f[ft] = (CASE k = 1 -> EmptyMap
                               [] k = 2 -> "u1" :> [total_days |-> 0]
                               [] k = 3 -> "u1" :> EntropyResult("u1", ft,
                                             <<0, 0, 1000, 0, 0, 2000>>))}}
    \cup {Garbage, Absent,
          Json([ft \in {"time_of_day", "log_types"} |->
                  "u2" :> EntropyResult("u2", ft, <<>>)])}

StageInit ==
    /\ \/ /\ mode = "entropy_stage"
          /\ pc = "entropy"
          /\ logs \in ExtractableDirs
          /\ features_file \in FeatureArtifacts(logs)
          /\ entropy_file = Absent
       \/ /\ mode = "anomaly_stage"
          /\ pc = "anomaly"
          /\ logs = ("u1" :> Absent) @@ ("u2" :> Absent)
          /\ features_file = Absent
          /\ entropy_file \in EntropyArtifacts
    /\ anomaly_file = Absent
    /\ fi = 1
    /\ all_entropy_results = EmptyMap /\ all_anomaly_results = EmptyMap
    /\ printed = {} /\ written = <<>> /\ runs = <<>>
    /\ HarnessIdle
    /\ rounding \in IF mode = "entropy_stage" THEN Roundings ELSE {0}

StageOutput == IF mode = "entropy_stage" THEN entropy_file ELSE anomaly_file

\* the same stage is started again on the same upstream artifact
Rerun ==
    /\ mode \in {"entropy_stage", "anomaly_stage"}
    /\ pc = "done"
    /\ runs = <<>>
    /\ runs' = <<StageOutput>>
    /\ pc' = IF mode = "entropy_stage" THEN "entropy" ELSE "anomaly"
    /\ fi' = 1
    /\ all_entropy_results' = EmptyMap
    /\ all_anomaly_results' = EmptyMap
    /\ written' = <<>>
    /\ UNCHANGED <<logs, features_file, entropy_file, anomaly_file, mode,
                   printed, call, ret, rounding>>

\* between two runs the external log producer writes, or removes, a user's
\* '<user>_logs.json'
ProducerRewrites ==
    /\ pc = "done"
    /\ runs = <<>>
    /\ \E u \in Users, f \in {Absent, Json(SpikeAfter(11))} :
          /\ logs[u] # f
          /\ logs' = [logs EXCEPT ![u] = f]
    /\ UNCHANGED <<features_file, entropy_file, anomaly_file, pc, mode, fi,
                   all_entropy_results, all_anomaly_results, printed, written,
                   runs, call, ret, rounding>>

StageNext ==
    \/ EntropyFeature
    \/ SaveEntropy
    \/ AnomalyFeature
    \/ SaveAnomaly
    \/ Rerun
    \/ ProducerRewrites

SpecStages == StageInit /\ [][StageNext]_vars

-----------------------------------------------------------------------------
(* Claims about a run of main *)

LogsOn(file, day) == {i \in DOMAIN file.data : file.data[i].timestamp.day = day}

\* days 1..10 carry one category only, day 11 carries all-distinct categories
SpikeAfterConstantRun(file) ==
    /\ WellFormed(file)
    /\ \A i \in DOMAIN file.data : file.data[i].timestamp.day \in 1..11
    /\ \A d \in 1..10 : LogsOn(file, d) # {}
    /\ \A i, j \in DOMAIN file.data :
         (file.data[i].timestamp.day <= 10 /\ file.data[j].timestamp.day <= 10)
            => file.data[i].log_type = file.data[j].log_type
    /\ Cardinality(LogsOn(file, 11)) >= 2
    /\ \A i, j \in LogsOn(file, 11) :
         file.data[i].log_type = file.data[j].log_type => i = j

MainDone == mode = "main" /\ pc = "done"

\* the python index of the entropy value whose window ends on the day:
\* the series starts with the window that ends on day 10
WindowIndex(day) == day - 10

C2_FailureIsolated ==
    (mode = "main" /\ pc # "extract") =>
        \A u \in Users :
            WellFormed(logs[u]) =>
                /\ features_file.state = "json"
                /\ u \in DOMAIN features_file.data

SixFeatureNames ==
    {"time_of_day", "log_types", "text_similarity", "response_latency",
     "logging_frequency", "glucose_values"}

\* C3: every user of the extracted-features artifact written by the pipeline
\* has all six feature keys.
C3_SixFeatureKeys ==
    (mode = "main" /\ features_file.state = "json") =>
        \A u \in DOMAIN features_file.data :
            SixFeatureNames \subseteq DOMAIN features_file.data[u]

IsPrefix(s, t) == Len(s) <= Len(t) /\ \A i \in DOMAIN s : s[i] = t[i]

\* C8: in a run of main the features artifact is written before any entropy
\* computation, the entropy artifact (all feature types) before any anomaly
\* detection, the anomaly artifact before plotting, and no artifact before
\* that of the preceding stage.
C8_StageOrder ==
    mode = "main" =>
        /\ IsPrefix(written, <<"features", "entropy", "anomaly", "plots">>)
        /\ pc \in {"entropy", "save_entropy"} => written = <<"features">>
        /\ all_entropy_results # EmptyMap => features_file.state = "json"
        /\ pc \in {"anomaly", "save_anomaly"} =>
             /\ written = <<"features", "entropy">>
             /\ DOMAIN entropy_file.data = Range(feature_types)
        /\ all_anomaly_results # EmptyMap => entropy_file.state = "json"
        /\ pc = "plot" =>
             /\ written = <<"features", "entropy", "anomaly">>
             /\ DOMAIN anomaly_file.data = Range(feature_types)
        /\ (features_file.state = "json") = (Len(written) >= 1)
        /\ (entropy_file.state = "json") = (Len(written) >= 2)
        /\ (anomaly_file.state = "json") = (Len(written) >= 3)

\* a run went through all four steps with a user in every artifact
C8_Witness ==
    /\ MainDone
    /\ written = <<"features", "entropy", "anomaly", "plots">>
    /\ "u1" \in DOMAIN anomaly_file.data.log_types

\* exactly 14 entries, one on each of 14 consecutive days, all of one log_type
FourteenConstantDays(file) ==
    /\ WellFormed(file)
    /\ Len(file.data) = 14
    /\ \E first \in 1..MaxDays :
          {file.data[i].timestamp.day : i \in DOMAIN file.data}
              = first..(first + 13)
    /\ \A i, j \in DOMAIN file.data :
          file.data[i].log_type = file.data[j].log_type

\* C11: after a run of main over a user with exactly 14 entries on 14
\* consecutive days, all of one log_type, the user's log_types entropy series
\* is non-empty, every value of it is 0.0, and the anomaly report on it has
\* anomaly_count = 0 and an empty anomalies list.
C11_ConstantCategory ==
    MainDone =>
        \A u \in Users :
            FourteenConstantDays(logs[u]) =>
                /\ entropy_file.data.log_types[u].entropies # <<>>
                /\ \A k \in DOMAIN entropy_file.data.log_types[u].entropies :
                      entropy_file.data.log_types[u].entropies[k] = 0
                /\ anomaly_file.data.log_types[u].anomaly_count = 0
                /\ anomaly_file.data.log_types[u].anomalies = <<>>

\* a run over such a user, logging at different hours, has completed with
\* the five windows that end on days 10..14
C11_Witness ==
    /\ MainDone
    /\ FourteenConstantDays(logs["u1"])
    /\ \E i, j \in DOMAIN logs["u1"].data :
          logs["u1"].data[i].timestamp.hour # logs["u1"].data[j].timestamp.hour
    /\ entropy_file.data.log_types["u1"].entropies = <<0, 0, 0, 0, 0>>
    /\ anomaly_file.data.log_types["u1"].total_points = 5
    /\ anomaly_file.data.log_types["u1"].anomaly_count = 0

\* the stream that holds one value under one key
OneValue(key, value) == key :> <<value>>

\* C15: in the features written by a run of main, a user whose log file is
\* an empty array has an empty collection for every emitted feature and its
\* file raises nothing; a user with exactly one log has an empty
\* text_similarity stream, and time_of_day and log_types streams that hold
\* exactly one value, under the calendar date of that log.
C15_DegenerateLogs ==
    (mode = "main" /\ features_file.state = "json") =>
        \A u \in Users :
            /\ logs[u] = Json(<<>>) =>
                  /\ ExtractFile(logs[u]).exc = "none"
                  /\ u \in DOMAIN features_file.data
                  /\ \A k \in DOMAIN features_file.data[u] :
                        features_file.data[u][k] = EmptyMap
            /\ (WellFormed(logs[u]) /\ Len(logs[u].data) = 1) =>
                  LET log == logs[u].data[1]
                      date == DateOf(log.timestamp)
                  IN /\ features_file.data[u].text_similarity = EmptyMap
                     /\ features_file.data[u].time_of_day =
                           OneValue(date, get_time_of_day_category(log.timestamp))
                     /\ features_file.data[u].log_types =
                           OneValue(date, log.log_type)

-----------------------------------------------------------------------------
(* Claims about the stages *)

EntropyStageRunning ==
    mode = "entropy_stage" /\ pc \in {"entropy", "save_entropy"}

AnomalyStageRunning ==
    mode = "anomaly_stage" /\ pc \in {"anomaly", "save_anomaly"}

\* an entry of the entropy results that lacks 'entropies'
EntryWithoutEntropies(file) ==
    /\ file.state = "json"
    /\ \E ft \in DOMAIN file.data : \E u \in DOMAIN file.data[ft] :
          "entropies" \notin DOMAIN file.data[ft][u]

MalformedEntropyArtifact(file) ==
    \/ file.state = "garbage"
    \/ EntryWithoutEntropies(file)

MalformedFeaturesArtifact(file) == file.state = "garbage"

\* C5: a stage whose upstream artifact is unparseable or has an entry without
\* an expected key raises: it returns no result map and writes no artifact.
C5_MalformedAborts ==
    /\ (mode = "anomaly_stage" /\ MalformedEntropyArtifact(entropy_file)) =>
          (all_anomaly_results = EmptyMap /\ anomaly_file.state = "absent")
    /\ (mode = "entropy_stage" /\ MalformedFeaturesArtifact(features_file)) =>
          (all_entropy_results = EmptyMap /\ entropy_file.state = "absent")

\* C6: a stage run again on the same upstream artifact writes the same
\* output artifact; its output is a function of that artifact only.
C6_FunctionOfArtifact ==
    (mode \in {"entropy_stage", "anomaly_stage"} /\ pc = "done" /\ runs # <<>>)
        => StageOutput = runs[1]

Without(map, gone) == [u \in DOMAIN map \ gone |-> map[u]]

\* C7: when the analysis of one user raises in a batch loop, the batch still
\* returns; the failing users are absent from the result map and every other
\* user's result is what the batch returns with the failing users not there.
C7_PerUserFailureTolerated ==
    /\ EntropyStageRunning =>
         \A ft \in DOMAIN all_entropy_results :
            LET failing == EntropyFailures(ft, features_file, logs)
                kept == Without(features_file.data, failing)
            IN /\ DOMAIN all_entropy_results[ft]
                    = DOMAIN features_file.data \ failing
               /\ \A u \in DOMAIN kept :
                    all_entropy_results[ft][u]
                      = analyze_user_entropy(u, ft, kept, logs).val
    /\ (mode = "entropy_stage" /\ features_file.state = "json") => pc # "raised"
    /\ AnomalyStageRunning =>
         \A ft \in DOMAIN all_anomaly_results :
            LET failing == AnomalyFailures(ft, entropy_file)
                kept == Json([g \in DOMAIN entropy_file.data |->
                                Without(entropy_file.data[g], failing)])
            IN /\ DOMAIN all_anomaly_results[ft]
                    = DOMAIN entropy_file.data[ft] \ failing
               /\ \A u \in DOMAIN kept.data[ft] :
                    all_anomaly_results[ft][u]
                      = analyze_user_entropy_anomalies(u, ft, kept).val
    /\ (mode = "anomaly_stage" /\ entropy_file.state = "json"
          /\ Range(feature_types) \subseteq DOMAIN entropy_file.data)
         => pc # "raised"

\* the first user of a batch failed and the second one got its result, with
\* anomalies in it
C7_Witness ==
    /\ AnomalyStageRunning
    /\ "log_types" \in DOMAIN all_anomaly_results
    /\ "u1" \in AnomalyFailures("log_types", entropy_file)
    /\ "u2" \in DOMAIN all_anomaly_results.log_types
    /\ all_anomaly_results.log_types["u2"].anomaly_count > 0

-----------------------------------------------------------------------------
(* Pure-function harness: Init draws the arguments, one action per function *)

Categories == {"glucose", "diet", "mood"}

\* data and timestamps of equal length, any category on any day
WindowCalls ==
    {[fn |-> "calculate_window_entropy",
      data |-> [i \in DOMAIN e |-> e[i][1]],
      timestamps |-> [i \in DOMAIN e |-> Stamp(e[i][2], 8)],
      window_size |-> w] :
        e \in SeqsUpTo(Categories \X (1..MaxDay), MaxLen), w \in 1..MaxDay}

ZThresholds ==
    {[num |-> -1, den |-> 1], [num |-> 0, den |-> 1], [num |-> 1, den |-> 2],
     [num |-> 1, den |-> 1], [num |-> 2, den |-> 1], [num |-> 3, den |-> 1]}

ZCalls ==
    {[fn |-> "detect_anomalies", data |-> d, z_threshold |-> z] :
        d \in SeqsUpTo(0..MaxVal, MaxSeries), z \in ZThresholds}

NoLogs == [u \in Users |-> Absent]

\* the synthetic_logs directories of the calls
HarnessDirs ==
    {("u1" :> f1) @@ ("u2" :> f2) :
        f1 \in {Absent, Json(<<>>), Json(SteadyDays(12)), Json(SpikeAfter(12)),
                Json(Reverse(SpikeAfter(12))), Json(IsoDays(11))},
        f2 \in {Absent, Json(ConstantDays(1))}}

\* a features entry whose streams hold a date with no value
EmptyDayFeatures ==
    "u1" :> FeatureDict(IsoDate(1) :> <<>>, EmptyMap, IsoDate(1) :> <<>>, EmptyMap)

\* all_features is what the extractor returns for the directory, with the log
\* files still there or gone since
EntropyCalls ==
    {[fn |-> "analyze_user_entropy", user_id |-> u, feature_type |-> ft,
      all_features |-> f, logs_dir |-> l] :
        u \in Users,
        ft \in {"time_of_day", "logging_frequency", "log_types",
                "text_similarity", "response_latency"},
        f \in {extract_user_features(d).val : d \in HarnessDirs}
                \cup {EmptyDayFeatures},
        l \in {NoLogs, ("u1" :> Json(SpikeAfter(12))) @@ ("u2" :> Absent)}
                \cup HarnessDirs}

HarnessSeries == {<<>>, <<0, 0, 1000, 0, 0, 2000>>}

\* entropy_results.json: missing, unparseable, or holding some feature types
\* and some users
HarnessEntropyFiles ==
    {Absent, Garbage}
    \cup {Json([ft \in fts |-> [u \in us |-> EntropyResult(u, ft, series)]]) :
            fts \in {{"log_types"}, Range(feature_types)},
            us \in SUBSET Users,
            series \in HarnessSeries}

AnomalyCalls ==
    {[fn |-> "analyze_user_entropy_anomalies", user_id |-> u,
      feature_type |-> ft, entropy_results |-> f] :
        u \in Users, ft \in {"log_types", "text_similarity"},
        f \in HarnessEntropyFiles}

\* log sequences in any order, with empty and repeated messages
PairEntries ==
    {LogEntry(d, 8, "glucose", m) : d \in 1..2, m \in {"", "glucose", "lunch"}}

PairCalls ==
    {[fn |-> f, logs |-> l] :
        f \in {"calculate_text_similarity", "calculate_response_latency"},
        l \in SeqsUpTo(PairEntries, MaxLen)}

LogTypes == {"glucose", "diet", "mood", "activity"}

\* lists of categories, in every order
ValueCalls ==
    {[fn |-> "calculate_entropy", values |-> v] :
        v \in SeqsUpTo(LogTypes, MaxSeries)}

\* every hour of the day, in both timestamp formats
HourCalls ==
    {[fn |-> "get_time_of_day_category", timestamp |-> t] :
        t \in {Stamp(1, h) : h \in 0..23} \cup {IsoStamp(1, h) : h \in 0..23}}

\* cosine similarities at, just below and just above the band limits
SimilarityCalls ==
    {[fn |-> "discretize_text_similarity", similarity |-> x] :
        x \in {0, 1, 19999, 20000, 20001, 39999, 40000, 40001, 69999, 70000,
               70001, 99999, 100000}}

Pending == [done |-> FALSE, val |-> <<>>]

Returned(v) == [done |-> TRUE, val |-> v]

FnIdle ==
    /\ logs = <<>> /\ features_file = <<>> /\ entropy_file = <<>>
    /\ anomaly_file = <<>> /\ pc = "fn" /\ mode = "fn" /\ fi = 0
    /\ all_entropy_results = <<>> /\ all_anomaly_results = <<>>
    /\ printed = {} /\ written = <<>> /\ runs = <<>>

Half == [num |-> 1, den |-> 2]

\* the series is named values, as in the call of line 41
MovingCalls ==
    {[fn |-> "detect_anomalies_moving_average", values |-> d, window_size |-> w,
      threshold |-> t] :
        d \in SeqsUpTo(0..MaxVal, MaxSeries), w \in {3, 5}, t \in {Half, Two}}

\* logs that share days, and timestamps, between them, a log two days after
\* the first day, and a log stamped by isoformat()
TiedEntries ==
    {LogEntry(d, 8, "glucose", "glucose") : d \in 1..2}
    \cup {LogEntry(d, 8, "diet", "lunch") : d \in 1..2}
    \cup {LogEntry(1, 13, "glucose", "glucose"), LogEntry(3, 8, "mood", ""),
          IsoLogEntry(2, 13, "glucose", "glucose")}

\* one user's log array, in any order
ExtractCalls ==
    {[fn |-> "extract_user_features", log_array |-> l] :
        l \in SeqsUpTo(TiedEntries, MaxLen)}

\* whether the call takes the mean of points whose sum can round
ReadsRounding(c) ==
    CASE c.fn = "analyze_user_entropy" -> TRUE
      [] c.fn = "detect_anomalies" ->
           \/ Inexact(c.data)
           \/ \E i \in DOMAIN c.data : Tie(c.data[i], c.data, c.z_threshold)
      [] c.fn = "detect_anomalies_moving_average" ->
           \E i \in c.window_size..(Len(c.values) - 1) :
               LET window == WindowBefore(c.values, i, c.window_size)
               IN Inexact(window) \/ Tie(c.values[i + 1], window, c.threshold)
      [] OTHER -> FALSE

FnInit ==
    /\ FnIdle
    /\ call \in WindowCalls \cup ZCalls \cup EntropyCalls \cup AnomalyCalls
                \cup PairCalls \cup ValueCalls \cup HourCalls
                \cup SimilarityCalls \cup MovingCalls \cup ExtractCalls
    /\ ret = Pending
    /\ rounding \in IF ReadsRounding(call) THEN Roundings ELSE {0}

FnFrame ==
    UNCHANGED <<logs, features_file, entropy_file, anomaly_file, pc, mode, fi,
                all_entropy_results, all_anomaly_results, printed, written,
                runs, call, rounding>>

CallWindowEntropy ==
    /\ ~ret.done
    /\ call.fn = "calculate_window_entropy"
    /\ ret' = Returned(calculate_window_entropy(call.data, call.timestamps,
                                                 call.window_size))
    /\ FnFrame

\* extract_user_features() on a directory that holds the array as one file
CallExtract ==
    /\ ~ret.done
    /\ call.fn = "extract_user_features"
    /\ ret' = Returned(extract_user_features(
                          ("u1" :> Json(call.log_array)) @@ ("u2" :> Absent)))
    /\ FnFrame

CallMovingAverage ==
    /\ ~ret.done
    /\ call.fn = "detect_anomalies_moving_average"
    /\ ret' = Returned(detect_anomalies_moving_average(call.values,
                                                       call.window_size,
                                                       call.threshold))
    /\ FnFrame

CallDetectAnomalies ==
    /\ ~ret.done
    /\ call.fn = "detect_anomalies"
    /\ ret' = Returned(detect_anomalies(call.data, call.z_threshold))
    /\ FnFrame

CallAnalyzeUserEntropy ==
    /\ ~ret.done
    /\ call.fn = "analyze_user_entropy"
    /\ ret' = Returned(analyze_user_entropy(call.user_id, call.feature_type,
                                             call.all_features, call.logs_dir))
    /\ FnFrame

CallAnalyzeUserEntropyAnomalies ==
    /\ ~ret.done
    /\ call.fn = "analyze_user_entropy_anomalies"
    /\ ret' = Returned(analyze_user_entropy_anomalies(
                          call.user_id, call.feature_type, call.entropy_results))
    /\ FnFrame

CallTextSimilarity ==
    /\ ~ret.done
    /\ call.fn = "calculate_text_similarity"
    /\ ret' = Returned(calculate_text_similarity(call.logs))
    /\ FnFrame

CallResponseLatency ==
    /\ ~ret.done
    /\ call.fn = "calculate_response_latency"
    /\ ret' = Returned(calculate_response_latency(call.logs))
    /\ FnFrame

CallEntropy ==
    /\ ~ret.done
    /\ call.fn = "calculate_entropy"
    /\ ret' = Returned(calculate_entropy(call.values))
    /\ FnFrame

CallTimeOfDay ==
    /\ ~ret.done
    /\ call.fn = "get_time_of_day_category"
    /\ ret' = Returned(get_time_of_day_category(call.timestamp))
    /\ FnFrame

CallDiscretizeSimilarity ==
    /\ ~ret.done
    /\ call.fn = "discretize_text_similarity"
    /\ ret' = Returned(discretize_text_similarity(call.similarity))
    /\ FnFrame

FnNext ==
    \/ CallTimeOfDay
    \/ CallDiscretizeSimilarity
    \/ CallEntropy
    \/ CallTextSimilarity
    \/ CallResponseLatency
    \/ CallWindowEntropy
    \/ CallDetectAnomalies
    \/ CallMovingAverage
    \/ CallExtract
    \/ CallAnalyzeUserEntropy
    \/ CallAnalyzeUserEntropyAnomalies

SpecFn == FnInit /\ [][FnNext]_vars

-----------------------------------------------------------------------------
(* Claims about the pure functions *)

WindowReturned == ret.done /\ call.fn = "calculate_window_entropy"

\* the distinct dates of the zipped input, ascending
CallDates == SortedSeq({call.timestamps[i].day : i \in DOMAIN call.timestamps})

\* how many values fall on the window_size dates that end at emitted index k
ValuesInWindow(k) ==
    Cardinality({i \in DOMAIN call.data :
        \E j \in k..(k + call.window_size - 1) :
            call.timestamps[i].day = CallDates[j]})

OneValuePerDay ==
    \A i, j \in DOMAIN call.timestamps :
        call.timestamps[i].day = call.timestamps[j].day => i = j

\* C4 as stated: every value of the series returned by
\* calculate_window_entropy is >= 0 and <= log2(window_size), whatever the
\* number of values and categories a calendar day holds.
C4_AsStated ==
    WindowReturned =>
        \A k \in DOMAIN ret.val :
            ret.val[k] >= 0 /\ ret.val[k] <= Log2Milli(call.window_size)

\* C4 amended: every value of the series is >= 0 and <= log2(n), n the
\* number of values in its window; it is <= log2(window_size) when every
\* calendar day holds exactly one value.
C4_EntropyBounds ==
    WindowReturned =>
        \A k \in DOMAIN ret.val :
            /\ ret.val[k] >= 0
            /\ ret.val[k] <= Log2Milli(ValuesInWindow(k))
            /\ OneValuePerDay => ret.val[k] <= Log2Milli(call.window_size)

\* a window of two days holding three distinct categories has been evaluated
C4_Witness ==
    /\ WindowReturned
    /\ call.window_size = 2
    /\ Len(ret.val) = 1
    /\ Cardinality(Range(call.data)) = 3
    /\ ret.val[1] = Log2Milli(3)

ZReturned == ret.done /\ call.fn = "detect_anomalies"

AllEqual(data) == \A i, j \in DOMAIN data : data[i] = data[j]

\* C10: detect_anomalies(data, z_threshold) returns the empty list, for every
\* z_threshold, when data has fewer than 2 points or all its points are equal.
C10_NoOpCases ==
    (ZReturned /\ (Len(call.data) < 2 \/ AllEqual(call.data)))
        => ret.val = <<>>

\* a series of several equal points was scanned with a threshold of 1/2,
\* and so was a series of one point
C10_Witness ==
    /\ ZReturned
    /\ Len(call.data) >= 3
    /\ AllEqual(call.data)
    /\ call.data[1] > 0
    /\ call.z_threshold = [num |-> 1, den |-> 2]
    /\ ret.val = <<>>

EntropyReturned == ret.done /\ call.fn = "analyze_user_entropy"

AnomaliesReturned == ret.done /\ call.fn = "analyze_user_entropy_anomalies"

\* C12: analyze_user_entropy raises, and returns no result, when user_id is
\* not a key of the features or feature_type is not a key of the user's
\* features; analyze_user_entropy_anomalies raises, and returns no result,
\* when feature_type is not in the entropy results or user_id is not under
\* that feature_type.
C12_MissingKeyRaises ==
    /\ (EntropyReturned
          /\ (\/ call.user_id \notin DOMAIN call.all_features
              \/ call.feature_type
                    \notin DOMAIN call.all_features[call.user_id]))
         => (ret.val.exc \in {"KeyError", "ValueError"} /\ ret.val.val = <<>>)
    /\ (AnomaliesReturned
          /\ call.entropy_results.state = "json"
          /\ (\/ call.feature_type \notin DOMAIN call.entropy_results.data
              \/ call.user_id \notin
                    DOMAIN call.entropy_results.data[call.feature_type]))
         => (ret.val.exc = "KeyError" /\ ret.val.val = <<>>)

\* the anomaly analysis was asked for a user that the entropy results, which
\* hold another user under that feature type, do not hold
C12_Witness ==
    /\ AnomaliesReturned
    /\ call.entropy_results.state = "json"
    /\ call.feature_type \in DOMAIN call.entropy_results.data
    /\ call.user_id = "u1"
    /\ DOMAIN call.entropy_results.data[call.feature_type] = {"u2"}
    /\ ret.val.exc = "KeyError"

\* the result on an empty stream or series
EmptyEntropyResult(user_id, feature_type) ==
    [user_id |-> user_id, feature_type |-> feature_type, entropies |-> <<>>,
     total_days |-> 0, mean_entropy |-> 0, max_entropy |-> 0, min_entropy |-> 0]

EmptyAnomalyResult(user_id, feature_type) ==
    [user_id |-> user_id, feature_type |-> feature_type, anomalies |-> <<>>,
     total_points |-> 0, anomaly_count |-> 0]

\* the stream of the call is present and holds no value
EmptyStreamCall ==
    /\ call.user_id \in DOMAIN call.all_features
    /\ call.feature_type \in DOMAIN call.all_features[call.user_id]
    /\ \A date \in DOMAIN call.all_features[call.user_id][call.feature_type] :
          call.all_features[call.user_id][call.feature_type][date] = <<>>

\* the series of the call is present and empty
EmptySeriesCall ==
    /\ call.entropy_results.state = "json"
    /\ call.feature_type \in DOMAIN call.entropy_results.data
    /\ call.user_id \in DOMAIN call.entropy_results.data[call.feature_type]
    /\ call.entropy_results.data[call.feature_type][call.user_id].entropies
          = <<>>

\* C13: analyze_user_entropy on a present but empty feature stream returns
\* entropies = [], total_days = 0 and mean, max and min entropy 0.0, whether
\* or not the user's log file exists; analyze_user_entropy_anomalies on an
\* empty entropy series returns anomalies = [], total_points = 0 and
\* anomaly_count = 0.
C13_EmptyIsDefined ==
    /\ (EntropyReturned /\ EmptyStreamCall) =>
          ret.val = Ok(EmptyEntropyResult(call.user_id, call.feature_type))
    /\ (AnomaliesReturned /\ EmptySeriesCall) =>
          ret.val = Ok(EmptyAnomalyResult(call.user_id, call.feature_type))

\* an empty stream was analysed with no log file in the directory
C13_Witness ==
    /\ EntropyReturned
    /\ EmptyStreamCall
    /\ call.logs_dir = NoLogs
    /\ ret.val.exc = "none"
    /\ ret.val.val.total_days = 0

PairReturned ==
    /\ ret.done
    /\ call.fn \in {"calculate_text_similarity", "calculate_response_latency"}

\* C14: for a log sequence of length N, calculate_text_similarity and
\* calculate_response_latency return the empty list when N < 2 and a list of
\* N - 1 elements when N >= 2; when the vectorization fails, every one of the
\* N - 1 elements of the text similarity is 0.
C14_PairwiseCardinality ==
    PairReturned =>
        /\ ret.val.exc = "none"
        /\ Len(call.logs) < 2 => ret.val.val = <<>>
        /\ Len(call.logs) >= 2 => Len(ret.val.val) = Len(call.logs) - 1
        /\ (/\ call.fn = "calculate_text_similarity"
            /\ Len(call.logs) >= 2
            /\ \A i \in DOMAIN call.logs : call.logs[i].message = "")
              => \A i \in DOMAIN ret.val.val : ret.val.val[i] = 0

\* three logs without a word in their messages: the vectorization failed
\* and two zeros came back
C14_Witness ==
    /\ PairReturned
    /\ call.fn = "calculate_text_similarity"
    /\ Len(call.logs) = 3
    /\ \A i \in DOMAIN call.logs : call.logs[i].message = ""
    /\ ret.val = Ok(<<0, 0>>)

EntropyOfReturned == ret.done /\ call.fn = "calculate_entropy"

\* C16: calculate_entropy returns exactly 0.0 for the empty list and for
\* every non-empty list whose elements are all the same category.
C16_SingleCategoryZero ==
    (EntropyOfReturned /\ Cardinality(Range(call.values)) <= 1) => ret.val = 0

\* several copies of one category were given
C16_Witness ==
    /\ EntropyOfReturned
    /\ Len(call.values) >= 3
    /\ Cardinality(Range(call.values)) = 1
    /\ ret.val = 0

CountOf(c, values) == Cardinality({i \in DOMAIN values : values[i] = c})

\* every category of the list occurs the same number of times
Equiprobable(values) ==
    /\ values # <<>>
    /\ \A c, d \in Range(values) : CountOf(c, values) = CountOf(d, values)

\* C17: for a list of k distinct categories that each occur the same number
\* of times, in any order, calculate_entropy returns log2(k): 2.0 for k = 4.
C17_EquiprobableLog2 ==
    (EntropyOfReturned /\ Equiprobable(call.values)) =>
        ret.val = Log2Milli(Cardinality(Range(call.values)))

\* four categories, once each, gave 2.0
C17_Witness ==
    /\ EntropyOfReturned
    /\ Len(call.values) = 4
    /\ Cardinality(Range(call.values)) = 4
    /\ ret.val = 2000

HourReturned == ret.done /\ call.fn = "get_time_of_day_category"

SimilarityReturned == ret.done /\ call.fn = "discretize_text_similarity"

RECURSIVE ValuesOfDays(_, _, _)
ValuesOfDays(n, lo, hi) ==
    IF n = 0 THEN <<>>
    ELSE ValuesOfDays(n - 1, lo, hi)
         \o (IF call.timestamps[n].day \in lo..hi THEN <<call.data[n]>>
             ELSE <<>>)

\* C20: the value emitted for a day is the entropy of exactly the values
\* observed on the window_size calendar days that end on that day; a window
\* reaches no further back when some of those days have no logs.
C20_TrailingCalendarDays ==
    WindowReturned =>
        \A k \in DOMAIN ret.val :
            LET last == CallDates[k + call.window_size - 1]
            IN ret.val[k] =
                 calculate_entropy(
                   ValuesOfDays(Len(call.data), last - call.window_size + 1,
                                last))

-----------------------------------------------------------------------------
(* The summary statistics of a result, and the saved results *)

\* the results main has collected, one per feature type and user
CollectedResults ==
    UNION {{all_entropy_results[ft][u] : u \in DOMAIN all_entropy_results[ft]} :
              ft \in DOMAIN all_entropy_results}

\* main has written entropy_results.json
EntropySaved == mode = "main" /\ entropy_file.state = "json"

\* the file read back holds the series and the statistics that were saved
ReloadsTheSame ==
    EntropySaved =>
        /\ DOMAIN entropy_file.data = DOMAIN all_entropy_results
        /\ \A ft \in DOMAIN all_entropy_results :
              /\ DOMAIN entropy_file.data[ft] = DOMAIN all_entropy_results[ft]
              /\ \A u \in DOMAIN all_entropy_results[ft] :
                    LET saved == all_entropy_results[ft][u]
                        loaded == entropy_file.data[ft][u]
                    IN /\ loaded.entropies = saved.entropies
                       /\ loaded.mean_entropy = saved.mean_entropy
                       /\ loaded.max_entropy = saved.max_entropy
                       /\ loaded.min_entropy = saved.min_entropy

\* min_entropy and max_entropy are the extremes of the series, total_days its
\* length
ExtremesOfSeries(r) ==
    /\ r.total_days = Len(r.entropies)
    /\ r.entropies # <<>> =>
          /\ r.min_entropy = MinOf(r.entropies)
          /\ r.max_entropy = MaxOf(r.entropies)

-----------------------------------------------------------------------------
(* The dates the entropy stage attributes the values to *)

\* the call analyses the features the extractor returns for its directory
AnalysesOwnLogs ==
    /\ EntropyReturned
    /\ ret.val.exc = "none"
    /\ extract_user_features(call.logs_dir).exc = "none"
    /\ call.all_features = extract_user_features(call.logs_dir).val
    /\ call.feature_type \in {"time_of_day", "log_types", "text_similarity",
                               "logging_frequency"}

\* the stream as the extractor stored it, by date
StoredStream == call.all_features[call.user_id][call.feature_type]

\* the groups calculate_window_entropy works on: the flattened stream zipped
\* with the timestamps of the raw log file
Regrouped ==
    LET log_list == call.logs_dir[call.user_id].data
    IN group_data_by_day(
         Flatten(StoredStream, SortedSeq(DOMAIN StoredStream)),
         [i \in DOMAIN log_list |-> log_list[i].timestamp])

\* the calendar date of a key of a stream, whether the key is the date or the
\* whole timestamp
CalendarDate(key) == (key \div 100) * 100

\* for each value of the flattened stream, the calendar date it was stored under
RECURSIVE FlattenDates(_, _)
FlattenDates(values, dates) ==
    IF dates = <<>> THEN <<>>
    ELSE [i \in DOMAIN values[dates[1]] |-> CalendarDate(dates[1])]
         \o FlattenDates(values, Tail(dates))

\* the values of the stream by the calendar date they were stored under
StoredByDay ==
    LET keys == SortedSeq(DOMAIN StoredStream)
        flat == Flatten(StoredStream, keys)
        dates == FlattenDates(StoredStream, keys)
    IN [date \in Range(dates) |->
          LET at == SortedSeq({i \in DOMAIN flat : dates[i] = date})
          IN [k \in DOMAIN at |-> flat[at[k]]]]

\* C21: when analyze_user_entropy flattens a stream and calculate_window_entropy
\* regroups it by day, every value is in the group of the date under which the
\* extractor stored it, for the timestamp-aligned streams and for
\* logging_frequency, whatever the order of the raw log file.
C21_ValuesKeepTheirDate ==
    (AnalysesOwnLogs /\ StoredStream # EmptyMap) => Regrouped = StoredByDay

-----------------------------------------------------------------------------
(* The length of an entropy series *)

-----------------------------------------------------------------------------
(* The rule of the moving-window detector *)

MovingReturned == ret.done /\ call.fn = "detect_anomalies_moving_average"

\* the indices of the returned pairs, in the order returned
FlaggedIndices == [k \in DOMAIN ret.val |-> ret.val[k].index]

\* the rule on the window data[i - window_size .. i - 1] (python indices),
\* with n = window_size, S its sum and V = n * sum of squares - S * S, so
\* that std = sqrt(V) / n and mean = S / n
RuleFlags(i) ==
    LET window == SubSeq(call.values, i - call.window_size + 1, i)
        n == call.window_size
        S == SumSeq(window)
        V == n * SumSqSeq(window) - S * S
        d == n * call.values[i + 1] - S
    IN /\ V # 0
       /\ call.threshold.den * call.threshold.den * d * d
            > call.threshold.num * call.threshold.num * V

\* C23: detect_anomalies_moving_average flags index i if and only if
\* i >= window_size, the population standard deviation of the window
\* data[i - window_size .. i - 1] is not zero and data[i] is further than
\* threshold standard deviations from the mean of the window; nothing is
\* flagged in a series of at most window_size points, and the indices come
\* back in strictly increasing order with the values at those indices.
C23_MovingWindowRule ==
    MovingReturned =>
        /\ \A i \in 0..(Len(call.values) - 1) :
              (\E k \in DOMAIN ret.val : ret.val[k].index = i)
                  <=> (i >= call.window_size /\ RuleFlags(i))
        /\ Len(call.values) <= call.window_size => ret.val = <<>>
        /\ \A k \in DOMAIN ret.val :
              /\ ret.val[k].value = call.values[ret.val[k].index + 1]
              /\ k > 1 => FlaggedIndices[k - 1] < FlaggedIndices[k]

-----------------------------------------------------------------------------
(* The extractor and the order of its input *)

ExtractReturned == ret.done /\ call.fn = "extract_user_features"

\* the arrays that hold the entries of log_array in another order
Reorderings(log_array) ==
    IF log_array = <<>> THEN {<<>>}
    ELSE {[i \in DOMAIN log_array |-> log_array[f[i]]] :
             f \in Permutations(DOMAIN log_array)}

\* what the extractor returns for the user when the file holds the array
FeaturesOf(log_array) ==
    extract_user_features(("u1" :> Json(log_array)) @@ ("u2" :> Absent)).val["u1"]

\* C24: for every permutation of a user's log array, also one in which
\* several entries share a timestamp, extract_user_features returns the same
\* time_of_day, log_types, text_similarity and logging_frequency streams.
C24_OrderIndependent ==
    ExtractReturned =>
        \A other \in Reorderings(call.log_array) :
            LET features == FeaturesOf(other)
            IN /\ features.time_of_day = ret.val.val["u1"].time_of_day
               /\ features.log_types = ret.val.val["u1"].log_types
               /\ features.text_similarity = ret.val.val["u1"].text_similarity
               /\ features.logging_frequency
                    = ret.val.val["u1"].logging_frequency

-----------------------------------------------------------------------------
(* The date keys of the feature streams *)

\* the calendar days of the timestamps of the call's array
LogDays == {call.log_array[i].timestamp.day : i \in DOMAIN call.log_array}

\* the number of logs of the array on the day
CountOn(day) ==
    Cardinality({i \in DOMAIN call.log_array :
                    call.log_array[i].timestamp.day = day})

\* logging_frequency has one key for every calendar date from the earliest to
\* the latest log date, each with a one-element list: the band of the day's
\* count, 'low' for a date without logs
DenseFrequency(features) ==
    /\ DOMAIN features.logging_frequency =
          {IsoDate(d) : d \in {e \in 1..MaxOf(SortedSeq(LogDays)) :
                                  e >= MinOf(SortedSeq(LogDays))}}
    /\ \A d \in 1..MaxOf(SortedSeq(LogDays)) :
          d >= MinOf(SortedSeq(LogDays)) =>
              features.logging_frequency[IsoDate(d)] =
                  (IF CountOn(d) = 0 THEN <<"low">>
                   ELSE <<discretize_logging_frequency(CountOn(d))>>)

\* C25: every date key of time_of_day, log_types and text_similarity is the
\* calendar date of one of the user's log timestamps and is a key of
\* logging_frequency; logging_frequency has exactly one key per calendar date
\* from the earliest to the latest log date, each mapped to a one-element
\* list, ['low'] for a date without logs and the band of the count otherwise.
C25_DateKeys ==
    (ExtractReturned /\ call.log_array # <<>>) =>
        LET features == ret.val.val["u1"]
        IN /\ \A ft \in {"time_of_day", "log_types", "text_similarity"} :
                 \A key \in DOMAIN features[ft] :
                     /\ key \in {IsoDate(d) : d \in LogDays}
                     /\ key \in DOMAIN features.logging_frequency
           /\ DenseFrequency(features)

-----------------------------------------------------------------------------
(* The users of the artifacts of a complete run *)

\* main has returned
Completed == mode = "main" /\ pc = "done"

\* main has written the anomaly results, the last of the three artifacts
ArtifactsWritten == mode = "main" /\ anomaly_file.state = "json"

\* C26: after a complete run of main (and from the moment the anomaly results
\* are written), for every feature type the users of the anomaly results are
\* users of the entropy results, which are users of the extracted features; a
\* user whose entropy analysis failed has no anomaly entry; both result
\* artifacts have exactly the keys time_of_day, log_types, text_similarity
\* and response_latency.
C26_ResultContainment ==
    ArtifactsWritten =>
        LET four == {"time_of_day", "log_types", "text_similarity",
                     "response_latency"}
        IN /\ DOMAIN entropy_file.data = four
           /\ DOMAIN anomaly_file.data = four
           /\ \A ft \in four :
                 /\ DOMAIN anomaly_file.data[ft]
                      \subseteq DOMAIN entropy_file.data[ft]
                 /\ DOMAIN entropy_file.data[ft]
                      \subseteq DOMAIN features_file.data
                 /\ \A u \in Users :
                       <<"entropy", ft, u>> \in printed =>
                           u \notin DOMAIN anomaly_file.data[ft]

\* a run completed with two users in the features, both in the anomaly
\* results of log_types, and both failed for response_latency
C26_Witness ==
    /\ Completed
    /\ DOMAIN features_file.data = Users
    /\ DOMAIN anomaly_file.data["log_types"] = Users
    /\ \A u \in Users : <<"entropy", "response_latency", u>> \in printed
    /\ anomaly_file.data["response_latency"] = EmptyMap

-----------------------------------------------------------------------------
(* The results of the feature types main iterates over *)

\* the users whose log file holds logs on 10 or more distinct days
TenDayUsers ==
    {u \in Users :
        /\ WellFormed(logs[u])
        /\ Cardinality({logs[u].data[i].timestamp.day :
                            i \in DOMAIN logs[u].data}) >= 10}

\* C27: when at least one user has logs on 10 or more distinct days, a run of
\* main produces a non-empty per-user map for each feature type it iterates
\* over; the response_latency entry of the entropy results and of the anomaly
\* results holds an entry for every such user.
C27_NonEmptyResults ==
    (ArtifactsWritten /\ TenDayUsers # {}) =>
        /\ \A i \in DOMAIN feature_types :
              /\ entropy_file.data[feature_types[i]] # EmptyMap
              /\ anomaly_file.data[feature_types[i]] # EmptyMap
        /\ \A u \in TenDayUsers :
              /\ u \in DOMAIN entropy_file.data["response_latency"]
              /\ u \in DOMAIN anomaly_file.data["response_latency"]

-----------------------------------------------------------------------------
(* The lengths of the entropy series of one user *)

\* the users that have a result for each of the three timestamp-aligned
\* feature types in this run
ThreeSeriesUsers ==
    IF {"time_of_day", "log_types", "text_similarity"}
           \subseteq DOMAIN all_entropy_results
    THEN {u \in Users :
            \A ft \in {"time_of_day", "log_types", "text_similarity"} :
                u \in DOMAIN all_entropy_results[ft]}
    ELSE {}

SeriesLength(ft, u) == Len(all_entropy_results[ft][u].entropies)

\* the last entry of the user's raw log file is the only log of its day
LastEntryAlone(u) ==
    LET log_list == logs[u].data
    IN /\ log_list # <<>>
       /\ \A i \in DOMAIN log_list :
             log_list[i].timestamp.day = log_list[Len(log_list)].timestamp.day
                 => i = Len(log_list)

\* C28 as stated: for one user the entropy series of time_of_day, log_types
\* and text_similarity of one run all have the same length.
C28_AsStated ==
    \A u \in ThreeSeriesUsers :
        /\ SeriesLength("time_of_day", u) = SeriesLength("log_types", u)
        /\ SeriesLength("text_similarity", u) = SeriesLength("log_types", u)

\* C28, amended: the series of time_of_day and log_types have the same
\* length, max(0, D - 9) for logs on D distinct days; the series of
\* text_similarity has that length, or one value less when the series is not
\* empty and the last entry of the raw log file is the only log of its day.
C28_SeriesLengths ==
    \A u \in ThreeSeriesUsers :
        LET D == Cardinality({logs[u].data[i].timestamp.day :
                                 i \in DOMAIN logs[u].data})
            L == IF D >= 10 THEN D - 9 ELSE 0
        IN /\ SeriesLength("time_of_day", u) = L
           /\ SeriesLength("log_types", u) = L
           /\ SeriesLength("text_similarity", u) =
                 (IF L >= 1 /\ LastEntryAlone(u) THEN L - 1 ELSE L)

\* one user's text_similarity series is a value shorter than its three
\* values of log_types, the other user's series all have two values
C28_Witness ==
    /\ ThreeSeriesUsers = Users
    /\ \E u \in Users :
          /\ SeriesLength("log_types", u) = 3
          /\ SeriesLength("text_similarity", u) = 2
    /\ \E u \in Users :
          /\ SeriesLength("log_types", u) = 2
          /\ SeriesLength("text_similarity", u) = 2

-----------------------------------------------------------------------------
(* What the entropy stage and the anomaly stage write *)

\* a step of the entropy stage: the logs, the features and the anomaly
\* results stay, and the entropy results are written by the save only, when
\* every feature type has its results
EntropyStageFrame ==
    pc \in {"entropy", "save_entropy"} =>
        /\ logs' = logs
        /\ features_file' = features_file
        /\ anomaly_file' = anomaly_file
        /\ entropy_file' # entropy_file =>
              /\ pc = "save_entropy"
              /\ DOMAIN all_entropy_results = Range(feature_types)

\* a step of the anomaly stage: the logs, the features and the entropy
\* results stay, and the anomaly results are written by the save only, when
\* every feature type has its results
AnomalyStageFrame ==
    pc \in {"anomaly", "save_anomaly"} =>
        /\ logs' = logs
        /\ features_file' = features_file
        /\ entropy_file' = entropy_file
        /\ anomaly_file' # anomaly_file =>
              /\ pc = "save_anomaly"
              /\ DOMAIN all_anomaly_results = Range(feature_types)

\* C29: the entropy stage leaves the raw log files and the extracted features
\* unchanged, the anomaly stage leaves the raw log files, the extracted
\* features and the entropy results unchanged; each stage writes its own
\* artifact only, and only after every feature type has been processed.
C29_StageFrame == [][EntropyStageFrame /\ AnomalyStageFrame]_vars

\* both stages have run and saved: the features are still what the extractor
\* returned for the logs and the entropy results still what was collected
C29_Witness ==
    /\ mode = "main"
    /\ pc = "plot"
    /\ written = <<"features", "entropy", "anomaly">>
    /\ features_file = Json(extract_user_features(logs).val)
    /\ entropy_file.data = all_entropy_results
    /\ DOMAIN anomaly_file.data["log_types"] = Users

-----------------------------------------------------------------------------
(* The global z-score detector with the default threshold *)

DefaultCall == ZReturned /\ call.z_threshold = Two

====
